---- MODULE Spec2Model ----
(***************************************************************************)
(* claude-switch: named credential profiles for the Claude Code CLI.       *)
(*                                                                         *)
(* The state is the set of files the tool works on: the profile store      *)
(* (one file per profile), the active-state file, and the external tool's  *)
(* credentials file and global config.  Each command of the CLI is one     *)
(* action; what it read, wrote and spawned is recorded in `last`.          *)
(***************************************************************************)
EXTENDS Integers, Sequences, FiniteSets, TLC

VARIABLES
    profiles,    \* profiles/<name>.json : path -> stored profile (DOMAIN = files that exist)
    stateFile,   \* state.json
    credsFile,   \* <claude config dir>/.credentials.json
    claudeJson,  \* ~/.claude.json
    last,        \* the last command: what it was given, how it ended, its I/O
    faulted,     \* how many file operations have failed or been cut short so far
    modes,       \* path -> permission classes of the file (DOMAIN = files that exist)
    procs        \* invocations running side by side: each one's position and locals

vars == <<profiles, stateFile, credsFile, claudeJson, last, faulted, modes, procs>>

----------------------------------------------------------------------------
(* Bounds of the model *)

MaxNameLen == 2      \* names of the store-level specification: up to this many characters
MaxStored == 2       \* store-level specification: at most this many profile files
MaxNow == 0          \* wall-clock readings 0..MaxNow (ms)
MaxWrites == 3       \* a fault hits one of a command's first MaxWrites opens
MaxFaults == 1       \* at most this many faults in one behaviour
MaxTime == 2         \* is_expired on its own: clock readings 0..MaxTime (ms)

(* Program constants *)

BufferMs == 300000          \* is_expired: 5 * 60 * 1000
DefaultExpiresIn == 3600    \* refresh_token: expires_in default

----------------------------------------------------------------------------
(* Option<T> is a set with at most one element *)

None == {}
Some(x) == {x}
IsSome(o) == o # {}
Unwrap(o) == CHOOSE x \in o : TRUE

----------------------------------------------------------------------------
(* Profile names are strings: sequences of characters *)

NameChars == {"a", ".", "/"}

RECURSIVE SeqsUpTo(_, _)
SeqsUpTo(S, n) ==
    IF n = 0 THEN {<<>>}
    ELSE LET shorter == SeqsUpTo(S, n - 1)
         IN  shorter \cup {Append(s, c) : s \in {t \in shorter : Len(t) = n - 1}, c \in S}

NameStrings == SeqsUpTo(NameChars, MaxNameLen)

(* std::path::Path::components on a Unix path: the maximal runs of            *)
(* non-separator characters, a leading separator as RootDir, a leading `.`   *)
(* as CurDir, every other `.` and every empty run dropped, `..` as ParentDir *)
RECURSIVE Segments(_, _, _, _)
Segments(s, i, start, cur) ==
    IF i > Len(s)
    THEN IF cur = <<>> THEN <<>> ELSE <<[start |-> start, text |-> cur]>>
    ELSE IF s[i] = "/"
         THEN (IF cur = <<>> THEN <<>> ELSE <<[start |-> start, text |-> cur]>>)
              \o Segments(s, i + 1, i + 1, <<>>)
         ELSE Segments(s, i + 1, start, Append(cur, s[i]))

ComponentOf(seg) ==
    IF seg.text = <<".">> THEN (IF seg.start = 1 THEN "CurDir" ELSE "Skipped")
    ELSE IF seg.text = <<".", ".">> THEN "ParentDir"
    ELSE "Normal"

Components(name) ==
    LET segs == Segments(name, 1, 1, <<>>)
        kinds == [k \in 1..Len(segs) |-> ComponentOf(segs[k])]
        root == IF Len(name) > 0 /\ name[1] = "/" THEN <<"RootDir">> ELSE <<>>
    IN  root \o SelectSeq(kinds, LAMBDA c : c # "Skipped")

validate_profile_name(name) ==
    LET components == Components(name)
    IN  /\ Len(components) > 0
        /\ components[1] = "Normal"
        /\ Len(components) = 1

(* profiles_dir().join(format!("{name}.json")), relative to profiles_dir() *)
profile_path(name) == name \o <<".json">>

----------------------------------------------------------------------------
(* Data: the profile model and the contents of the four kinds of file *)

Scopes == <<"user:inference">>

Creds(at, rt, exp) ==
    [access_token |-> at, refresh_token |-> rt, expires_at |-> exp,
     scopes |-> Scopes, subscription_type |-> Some("max"), rate_limit_tier |-> None]

(* A claudeAiOauth value that is JSON but not an OAuthCredentials *)
BadShape == [bad_shape |-> TRUE]
IsCreds(v) == "access_token" \in DOMAIN v

Account(email) == [email_address |-> email]
DefaultAccount == Account(None)

OAuthProfile(c, a) == [kind |-> "oauth", credentials |-> c, account |-> a]
ApiKeyProfile(k) == [kind |-> "api_key", api_key |-> k, label |-> None]
(* a profile file that serde_json cannot decode (an empty, truncated file) *)
UndecodableProfile == [kind |-> "undecodable"]

StateObj(active) == [kind |-> "obj", active_profile |-> active]
StateAbsent == [kind |-> "absent", active_profile |-> None]
StateUndecodable == [kind |-> "undecodable", active_profile |-> None]

CredsObj(oauth, other) == [kind |-> "obj", claudeAiOauth |-> oauth, other |-> other]
CredsAbsent == [kind |-> "absent", claudeAiOauth |-> None, other |-> None]
CredsUndecodable == [kind |-> "undecodable", claudeAiOauth |-> None, other |-> None]

ClaudeObj(acct, key, other) ==
    [kind |-> "obj", oauthAccount |-> acct, primaryApiKey |-> key, other |-> other]
ClaudeAbsent ==
    [kind |-> "absent", oauthAccount |-> None, primaryApiKey |-> None, other |-> None]
(* not JSON at all *)
ClaudeUndecodable ==
    [kind |-> "undecodable", oauthAccount |-> None, primaryApiKey |-> None, other |-> None]
(* JSON, but not an object *)
ClaudeNonObject ==
    [kind |-> "nonobject", oauthAccount |-> None, primaryApiKey |-> None, other |-> None]

(* The files as paths *)
StatePath == <<"state.json">>
CredentialsPath == <<".credentials.json">>
ClaudeJsonPath == <<".claude.json">>
ProfileFile(name) == <<"profiles">> \o profile_path(name)
ExternalPaths == {CredentialsPath, ClaudeJsonPath}

----------------------------------------------------------------------------
(* One invocation: the files, the I/O done so far, and how the run stands.  *)
(* st = "run" while the command is executing; an error return (`?`, bail!)  *)
(* makes it "err", a kill "killed", a successful exec() "exec"; every later *)
(* step of the command is then skipped.                                     *)

World(p, s, c, j) ==
    [profiles |-> p, stateFile |-> s, credsFile |-> c, claudeJson |-> j,
     modes |-> <<>>,
     tr |-> <<>>, nw |-> 0, st |-> "run", err |-> "none", refreshed |-> None]

Ev(op, path, arg) == [op |-> op, path |-> path, arg |-> arg]
Log(w, op, path, arg) ==
    IF w.st # "run" THEN w ELSE [w EXCEPT !.tr = Append(@, Ev(op, path, arg))]
Fail(w, e) ==
    IF w.st # "run" THEN w ELSE [w EXCEPT !.st = "err", !.err = e]

NoFault == [kind |-> "none", at |-> 0]
Faults == {NoFault} \cup [kind : {"open", "write", "kill"}, at : 1..MaxWrites]

Truncated(path) ==
    IF path = StatePath THEN StateUndecodable
    ELSE IF path = CredentialsPath THEN CredsUndecodable
    ELSE IF path = ClaudeJsonPath THEN ClaudeUndecodable
    ELSE UndecodableProfile

SetFile(w, path, data) ==
    IF path = StatePath THEN [w EXCEPT !.stateFile = data]
    ELSE IF path = CredentialsPath THEN [w EXCEPT !.credsFile = data]
    ELSE IF path = ClaudeJsonPath THEN [w EXCEPT !.claudeJson = data]
    ELSE [w EXCEPT !.profiles =
              [q \in (DOMAIN @) \cup {Tail(path)} |->
                  IF q = Tail(path) THEN data ELSE @[q]]]

(* Permissions: the classes of user that can read and write the file *)
OwnerOnly == {"owner"}
GroupWorld == {"owner", "group", "world"}

(* OpenOptions::new().write(true).create(true).truncate(true).mode(0o600)    *)
(* .open(path): the mode is given to open(2) and applies when the call      *)
(* creates the file; an existing file is truncated and keeps its mode       *)
open_create(w, path) ==
    IF path \in DOMAIN w.modes THEN w
    ELSE [w EXCEPT !.modes = [q \in (DOMAIN @) \cup {path} |->
                                 IF q = path THEN OwnerOnly ELSE @[q]]]

(* write_secure: create_dir_all, open(create, truncate, mode 0600), write_all.  *)
(* The fault, when it hits this open: "open" fails before the file is touched, *)
(* "write" fails after the truncation, "kill" ends the process after it.       *)
write_secure(w, path, data, fault) ==
    IF w.st # "run" THEN w
    ELSE LET k == w.nw + 1
             hit == fault.kind # "none" /\ fault.at = k
             w1 == [w EXCEPT !.nw = k]
             w2 == open_create(w1, path)
         IN  IF hit /\ fault.kind = "open"
             THEN Fail(Log(w1, "open_failed", path, <<>>), "io")
             ELSE IF hit /\ fault.kind = "write"
             THEN Fail(Log(SetFile(w2, path, Truncated(path)), "write", path, <<>>), "io")
             ELSE IF hit /\ fault.kind = "kill"
             THEN [Log(SetFile(w2, path, Truncated(path)), "write", path, <<>>)
                      EXCEPT !.st = "killed"]
             ELSE Log(SetFile(w2, path, data), "write", path, <<>>)

----------------------------------------------------------------------------
(* Profile CRUD *)

save_profile(w, name, profile, fault) ==
    IF ~validate_profile_name(name) THEN Fail(w, "invalid_name")
    ELSE write_secure(w, ProfileFile(name), profile, fault)

(* load_profile: the run after the attempt, and the value when it is Ok *)
load_profile_ok(w, name) ==
    /\ validate_profile_name(name)
    /\ profile_path(name) \in DOMAIN w.profiles
    /\ w.profiles[profile_path(name)].kind # "undecodable"

load_profile(w, name) ==
    IF ~validate_profile_name(name) THEN Fail(w, "invalid_name")
    ELSE LET w1 == Log(w, "read", ProfileFile(name), <<>>)
         IN  IF profile_path(name) \notin DOMAIN w.profiles THEN Fail(w1, "not_found")
             ELSE IF w.profiles[profile_path(name)].kind = "undecodable"
                  THEN Fail(w1, "decode")
                  ELSE w1

loaded_profile(w, name) == w.profiles[profile_path(name)]

(* load_state: a missing or undecodable file is the default State *)
load_state(w) == Log(w, "read", StatePath, <<>>)
loaded_state(w) ==
    IF w.stateFile.kind = "obj" THEN w.stateFile.active_profile ELSE None

save_state(w, active, fault) == write_secure(w, StatePath, StateObj(active), fault)

(* fs::remove_file on a profile file *)
remove_file(w, name) ==
    [w EXCEPT !.profiles = [q \in (DOMAIN @) \ {profile_path(name)} |-> @[q]],
              !.modes = [q \in (DOMAIN @) \ {ProfileFile(name)} |-> @[q]]]

(* a remove that clears active state whichever profile was active *)
remove_profile_deactivating(w, name, fault) ==
    IF w.st # "run" THEN w
    ELSE IF ~validate_profile_name(name) THEN Fail(w, "invalid_name")
    ELSE LET w1 == Log(w, "stat", ProfileFile(name), <<>>)
         IN  IF profile_path(name) \notin DOMAIN w.profiles THEN Fail(w1, "not_found")
             ELSE LET w2 == Log(remove_file(w1, name), "remove", ProfileFile(name), <<>>)
                  IN  save_state(load_state(w2), None, fault)

remove_profile(w, name, fault) ==
    IF w.st # "run" THEN w
    ELSE IF ~validate_profile_name(name) THEN Fail(w, "invalid_name")
    ELSE LET w1 == Log(w, "stat", ProfileFile(name), <<>>)
         IN  IF profile_path(name) \notin DOMAIN w.profiles THEN Fail(w1, "not_found")
             ELSE LET w2 == Log(remove_file(w1, name), "remove", ProfileFile(name), <<>>)
                      w3 == load_state(w2)
                  IN  IF loaded_state(w3) = Some(name)
                      THEN save_state(w3, None, fault)
                      ELSE w3

----------------------------------------------------------------------------
(* Surgical config editing *)

(* path.exists(), then fs::read *)
Exists(w, path) == Log(w, "stat", path, <<>>)
Read(w, path) == Log(w, "read", path, <<>>)

(* the credentials file as HashMap<String, Value>: unwrap_or_default *)
CredsDoc(f) == IF f.kind = "obj" THEN f ELSE CredsObj(None, None)

(* a write that builds the document anew instead of merging into it *)
write_credentials_replacing(w, creds, fault) ==
    LET w1 == Exists(w, CredentialsPath)
        w2 == IF w.credsFile.kind # "absent" THEN Read(w1, CredentialsPath) ELSE w1
    IN  write_secure(w2, CredentialsPath, CredsObj(Some(creds), None), fault)

write_credentials(w, creds, fault) ==
    LET w1 == Exists(w, CredentialsPath)
        w2 == IF w.credsFile.kind # "absent" THEN Read(w1, CredentialsPath) ELSE w1
        doc == [CredsDoc(w.credsFile) EXCEPT !.claudeAiOauth = Some(creds)]
    IN  write_secure(w2, CredentialsPath, doc, fault)

(* a synchronization that demands an existing global config *)
write_oauth_account_requiring_file(w, account, fault) ==
    LET w1 == Exists(w, ClaudeJsonPath)
        f == w.claudeJson
    IN  IF f.kind = "absent" THEN Fail(w1, "io")
        ELSE LET w2 == Read(w1, ClaudeJsonPath)
             IN  IF f.kind = "undecodable" THEN Fail(w2, "json")
                 ELSE IF f.kind = "obj"
                 THEN write_secure(w2, ClaudeJsonPath,
                                   [f EXCEPT !.oauthAccount = Some(account)], fault)
                 ELSE write_secure(w2, ClaudeJsonPath, f, fault)

write_oauth_account(w, account, fault) ==
    LET w1 == Exists(w, ClaudeJsonPath)
        f == w.claudeJson
    IN  IF f.kind = "absent"
        THEN write_secure(w1, ClaudeJsonPath, ClaudeObj(Some(account), None, None), fault)
        ELSE LET w2 == Read(w1, ClaudeJsonPath)
             IN  IF f.kind = "undecodable" THEN Fail(w2, "json")
                 ELSE IF f.kind = "obj"
                 THEN write_secure(w2, ClaudeJsonPath,
                                   [f EXCEPT !.oauthAccount = Some(account)], fault)
                 ELSE write_secure(w2, ClaudeJsonPath, f, fault)

(* a clear step that forgets the API key *)
clear_claude_json_keeping_key(w, fault) ==
    LET w1 == Exists(w, ClaudeJsonPath)
        f == w.claudeJson
    IN  IF f.kind = "absent" THEN w1
        ELSE LET w2 == Read(w1, ClaudeJsonPath)
             IN  IF f.kind = "undecodable" THEN Fail(w2, "json")
                 ELSE IF f.kind = "obj"
                 THEN write_secure(w2, ClaudeJsonPath, [f EXCEPT !.oauthAccount = None],
                                   fault)
                 ELSE write_secure(w2, ClaudeJsonPath, f, fault)

clear_claude_json(w, fault) ==
    LET w1 == Exists(w, ClaudeJsonPath)
        f == w.claudeJson
    IN  IF f.kind = "absent" THEN w1
        ELSE LET w2 == Read(w1, ClaudeJsonPath)
             IN  IF f.kind = "undecodable" THEN Fail(w2, "json")
                 ELSE IF f.kind = "obj"
                 THEN write_secure(w2, ClaudeJsonPath,
                                   [f EXCEPT !.oauthAccount = None, !.primaryApiKey = None],
                                   fault)
                 ELSE write_secure(w2, ClaudeJsonPath, f, fault)

clear_credentials(w, fault) ==
    LET w1 == Exists(w, CredentialsPath)
    IN  IF w.credsFile.kind = "absent" THEN w1
        ELSE write_secure(Read(w1, CredentialsPath), CredentialsPath,
                          [CredsDoc(w.credsFile) EXCEPT !.claudeAiOauth = None], fault)

clear_auth(w, fault) == clear_claude_json(clear_credentials(w, fault), fault)

(* read_oauth_credentials: the claudeAiOauth value of the credentials file, if any *)
read_oauth_credentials(w) == Read(w, CredentialsPath)
oauth_credentials_read(w) ==
    IF w.credsFile.kind = "obj" THEN w.credsFile.claudeAiOauth ELSE None

----------------------------------------------------------------------------
(* OAuth refresh engine *)

(* expired only once the buffer has been passed *)
is_expired_strict(now, creds) == now + BufferMs > creds.expires_at

is_expired(now, creds) == now + BufferMs >= creds.expires_at

(* The endpoint's answer.  invalid_grant: the body, read as text by          *)
(* resp.as_str().unwrap_or_default(), contains "invalid_grant"; json: the    *)
(* body parses as JSON; the three fields are those as_str / as_u64 return.   *)
TransportError == [kind |-> "transport_error"]
Http(status, marker, json, at, rt, ein) ==
    [kind |-> "http", status_code |-> status, invalid_grant |-> marker, json |-> json,
     access_token |-> at, refresh_token |-> rt, expires_in |-> ein]

(* the marker looked for in a 400 response only *)
refresh_outcome_400_only(resp) ==
    IF resp.kind = "transport_error" THEN "other"
    ELSE IF resp.status_code < 200 \/ resp.status_code >= 300
         THEN (IF resp.invalid_grant /\ resp.status_code = 400
               THEN "invalid_grant" ELSE "other")
         ELSE IF ~resp.json THEN "other"
         ELSE IF resp.access_token = None THEN "other"
         ELSE "ok"

(* refresh_token: "ok" with the new credentials, "invalid_grant", or "other" *)
refresh_outcome(resp) ==
    IF resp.kind = "transport_error" THEN "other"
    ELSE IF resp.status_code < 200 \/ resp.status_code >= 300
         THEN (IF resp.invalid_grant THEN "invalid_grant" ELSE "other")
         ELSE IF ~resp.json THEN "other"
         ELSE IF resp.access_token = None THEN "other"
         ELSE "ok"

(* the refresh token taken from the response alone *)
refreshed_credentials_forgetting(now, creds, resp) ==
    [access_token |-> Unwrap(resp.access_token),
     refresh_token |-> IF IsSome(resp.refresh_token) THEN Unwrap(resp.refresh_token)
                       ELSE "",
     expires_at |-> now + (IF IsSome(resp.expires_in) THEN Unwrap(resp.expires_in)
                           ELSE DefaultExpiresIn) * 1000,
     scopes |-> creds.scopes,
     subscription_type |-> creds.subscription_type,
     rate_limit_tier |-> creds.rate_limit_tier]

refreshed_credentials(now, creds, resp) ==
    [access_token |-> Unwrap(resp.access_token),
     refresh_token |-> IF IsSome(resp.refresh_token) THEN Unwrap(resp.refresh_token)
                       ELSE creds.refresh_token,
     expires_at |-> now + (IF IsSome(resp.expires_in) THEN Unwrap(resp.expires_in)
                           ELSE DefaultExpiresIn) * 1000,
     scopes |-> creds.scopes,
     subscription_type |-> creds.subscription_type,
     rate_limit_tier |-> creds.rate_limit_tier]

(* the request is sent; an Ok result is kept in `refreshed` *)
refresh_token(w, now, creds, resp) ==
    IF w.st # "run" THEN w
    ELSE LET w1 == Log(w, "refresh", <<>>, <<refresh_outcome(resp)>>)
         IN  IF refresh_outcome(resp) = "ok"
             THEN [w1 EXCEPT !.refreshed = Some(refreshed_credentials(now, creds, resp))]
             ELSE w1

----------------------------------------------------------------------------
(* The external tool's login subcommand, `claude /login`: it either cannot  *)
(* be spawned, or runs, writes what it writes to its own files, and exits.  *)

LoginAccount == Account(Some("login@example.com"))
LoginKey == "sk-login"

SpawnFailed == [exit |-> "spawn_failed", wrote |-> "nothing", creds |-> BadShape]
LoginRan(exit, wrote, creds) == [exit |-> exit, wrote |-> wrote, creds |-> creds]

(* the files the login creates are the external tool's own: owner-only *)
login_creates(w, paths) ==
    [w EXCEPT !.modes = [q \in (DOMAIN @) \cup paths |->
                            IF q \in DOMAIN @ THEN @[q] ELSE OwnerOnly]]

claude_login(w, outcome) ==
    IF w.st # "run" THEN w
    ELSE LET w1 == Log(w, "spawn", <<"claude", "/login">>, <<outcome.exit>>)
             j == IF w.claudeJson.kind = "obj" THEN w.claudeJson
                  ELSE ClaudeObj(None, None, None)
             w2 == IF outcome.wrote = "oauth"
                   THEN [login_creates(w1, {CredentialsPath, ClaudeJsonPath}) EXCEPT
                           !.credsFile = [CredsDoc(@) EXCEPT
                                             !.claudeAiOauth = Some(outcome.creds)],
                           !.claudeJson = [j EXCEPT !.oauthAccount = Some(LoginAccount)]]
                   ELSE IF outcome.wrote = "oauth_only"
                   THEN [login_creates(w1, {CredentialsPath}) EXCEPT
                           !.credsFile = [CredsDoc(@) EXCEPT
                                             !.claudeAiOauth = Some(outcome.creds)]]
                   ELSE IF outcome.wrote = "api_key"
                   THEN [login_creates(w1, {ClaudeJsonPath}) EXCEPT
                           !.claudeJson = [j EXCEPT !.primaryApiKey = Some(LoginKey)]]
                   ELSE w1
         IN  IF outcome.exit = "spawn_failed" THEN Fail(w1, "spawn")
             ELSE IF outcome.exit = "nonzero" THEN Fail(w2, "login_failed")
             ELSE w2

(* Reading back what the login wrote (cmd_add, cmd_import and                *)
(* reauthenticate_profile each carry this same code)                         *)
primary_api_key(w) ==
    IF w.claudeJson.kind = "obj" THEN w.claudeJson.primaryApiKey ELSE None

oauth_account_read(w) ==
    IF w.claudeJson.kind = "obj" /\ IsSome(w.claudeJson.oauthAccount)
    THEN Unwrap(w.claudeJson.oauthAccount)
    ELSE DefaultAccount

capture_credentials(w) ==
    LET w1 == read_oauth_credentials(w)
        w2 == Read(w1, ClaudeJsonPath)
    IN  IF IsSome(oauth_credentials_read(w))
        THEN (IF IsCreds(Unwrap(oauth_credentials_read(w)))
              THEN Read(w2, ClaudeJsonPath)
              ELSE Fail(w2, "decode"))
        ELSE IF IsSome(primary_api_key(w)) THEN w2
        ELSE Fail(w2, "no_credentials")

captured_profile(w) ==
    IF IsSome(oauth_credentials_read(w)) /\ IsCreds(Unwrap(oauth_credentials_read(w)))
    THEN OAuthProfile(Unwrap(oauth_credentials_read(w)), oauth_account_read(w))
    ELSE IF IsSome(primary_api_key(w)) THEN ApiKeyProfile(Unwrap(primary_api_key(w)))
    ELSE UndecodableProfile

(* a clear step that also forgets which profile is active *)
reauthenticate_login_deactivating(w, login, fault) ==
    claude_login(save_state(clear_auth(w, fault), None, fault), login)

(* reauthenticate_profile, up to the login's exit *)
reauthenticate_login(w, login, fault) == claude_login(clear_auth(w, fault), login)

reauthenticate_profile(w, name, login, fault) ==
    LET w1 == reauthenticate_login(w, login, fault)
    IN  save_profile(capture_credentials(w1), name, captured_profile(w1), fault)

reauthenticated_profile(w, login, fault) ==
    captured_profile(reauthenticate_login(w, login, fault))

----------------------------------------------------------------------------
(* The commands *)

profile_exists(w, name) == load_profile_ok(w, name)
(* the I/O of profile_exists: load_profile's, its error dropped by is_ok() *)
profile_exists_io(w, name) ==
    IF validate_profile_name(name) THEN Read(w, ProfileFile(name)) ELSE w

set_active(w, name, fault) == save_state(load_state(w), Some(name), fault)

cmd_add(w, name, login, fault) ==
    LET w1 == profile_exists_io(w, name)
    IN  IF profile_exists(w, name) THEN Fail(w1, "exists")
        ELSE LET w2 == load_state(w1)
             IN  IF loaded_state(w2) = None THEN Fail(w2, "no_active")
                 ELSE LET w3 == reauthenticate_login(w2, login, fault)
                          w4 == save_profile(capture_credentials(w3), name,
                                             captured_profile(w3), fault)
                      IN  set_active(w4, name, fault)

cmd_import(w, name, fault) ==
    LET w1 == profile_exists_io(w, name)
    IN  IF profile_exists(w, name) THEN Fail(w1, "exists")
        ELSE set_active(save_profile(capture_credentials(w1), name,
                                     captured_profile(w1), fault),
                        name, fault)

(* Synchronization: the tail of cmd_use for an OAuth profile *)
synchronize(w, name, credentials, account, fault) ==
    set_active(write_oauth_account(write_credentials(w, credentials, fault),
                                   account, fault),
               name, fault)

(* refreshed credentials synchronized but never saved back to the profile *)
use_refreshed_unsaved(w, name, account, fault) ==
    synchronize(w, name, Unwrap(w.refreshed), account, fault)

use_refreshed(w, name, account, fault) ==
    LET credentials == Unwrap(w.refreshed)
        w1 == save_profile(w, name, OAuthProfile(credentials, account), fault)
    IN  synchronize(w1, name, credentials, account, fault)

use_invalid_grant(w, name, login, fault) ==
    LET w1 == reauthenticate_profile(w, name, login, fault)
        new_profile == reauthenticated_profile(w, login, fault)
    IN  IF w1.st # "run" THEN w1
        ELSE IF new_profile.kind = "oauth"
        THEN synchronize(w1, name, new_profile.credentials, new_profile.account, fault)
        ELSE Fail(w1, "non_oauth")

(* a failed refresh that deactivates the profile before returning the error *)
use_refresh_failed_deactivating(w) ==
    Fail(save_state(load_state(w), None, NoFault), "refresh")

use_refresh_failed(w) == Fail(w, "refresh")

(* an API-key use that also resets the external tool's account section *)
use_api_key_synchronizing(w, name, fault) ==
    set_active(write_oauth_account(w, DefaultAccount, fault), name, fault)

use_api_key(w, name, fault) == set_active(w, name, fault)

cmd_use(w, name, now, resp, login, fault) ==
    LET w1 == load_profile(w, name)
        profile == loaded_profile(w, name)
    IN  IF w1.st # "run" THEN w1
        ELSE IF profile.kind = "oauth"
        THEN IF is_expired(now, profile.credentials)
             THEN LET w2 == refresh_token(w1, now, profile.credentials, resp)
                  IN  IF refresh_outcome(resp) = "ok"
                      THEN use_refreshed(w2, name, profile.account, fault)
                      ELSE IF refresh_outcome(resp) = "invalid_grant"
                      THEN use_invalid_grant(w2, name, login, fault)
                      ELSE use_refresh_failed(w2)
             ELSE synchronize(w1, name, profile.credentials, profile.account, fault)
        ELSE use_api_key(w1, name, fault)

(* a remove that deletes the profile file and leaves active state alone *)
cmd_remove_keeping_state(w, name, fault) ==
    IF ~validate_profile_name(name) THEN Fail(w, "invalid_name")
    ELSE LET w1 == Log(w, "stat", ProfileFile(name), <<>>)
         IN  IF profile_path(name) \notin DOMAIN w.profiles THEN Fail(w1, "not_found")
             ELSE Log(remove_file(w1, name), "remove", ProfileFile(name), <<>>)

cmd_remove(w, name, fault) == remove_profile(w, name, fault)

(* Command::new(cmd[0]).args(cmd[1..]).env(var, value).exec() *)
exec_with_env(w, cmd, var, value, launch) ==
    IF w.st # "run" THEN w
    ELSE LET w1 == Log(w, "exec", cmd, <<var, value>>)
         IN  IF launch = "ok" THEN [w1 EXCEPT !.st = "exec"] ELSE Fail(w1, "exec")

(* an exec that synchronizes the refreshed token as `use` does *)
exec_refreshed_synchronizing(w, name, cmd, account, launch, fault) ==
    LET credentials == Unwrap(w.refreshed)
        w1 == save_profile(w, name, OAuthProfile(credentials, account), fault)
        w2 == write_credentials(w1, credentials, fault)
    IN  exec_with_env(w2, cmd, "CLAUDE_CODE_OAUTH_TOKEN", credentials.access_token, launch)

exec_refreshed(w, name, cmd, account, launch, fault) ==
    LET credentials == Unwrap(w.refreshed)
        w1 == save_profile(w, name, OAuthProfile(credentials, account), fault)
    IN  exec_with_env(w1, cmd, "CLAUDE_CODE_OAUTH_TOKEN", credentials.access_token, launch)

exec_invalid_grant(w, name, cmd, login, launch, fault) ==
    LET w1 == reauthenticate_profile(w, name, login, fault)
        new_profile == reauthenticated_profile(w, login, fault)
    IN  IF w1.st # "run" THEN w1
        ELSE IF new_profile.kind = "oauth"
        THEN exec_with_env(w1, cmd, "CLAUDE_CODE_OAUTH_TOKEN",
                           new_profile.credentials.access_token, launch)
        ELSE Fail(w1, "non_oauth")

exec_refresh_failed(w) == Fail(w, "refresh")

(* the API key injected under the OAuth variable *)
exec_api_key_as_token(w, cmd, api_key, launch) ==
    exec_with_env(w, cmd, "CLAUDE_CODE_OAUTH_TOKEN", api_key, launch)

exec_api_key(w, cmd, api_key, launch) ==
    exec_with_env(w, cmd, "ANTHROPIC_API_KEY", api_key, launch)

cmd_exec(w, name, cmd, now, resp, login, launch, fault) ==
    IF cmd = <<>> THEN Fail(w, "no_command")
    ELSE LET w1 == load_profile(w, name)
             profile == loaded_profile(w, name)
         IN  IF w1.st # "run" THEN w1
             ELSE IF profile.kind = "oauth"
             THEN IF is_expired(now, profile.credentials)
                  THEN LET w2 == refresh_token(w1, now, profile.credentials, resp)
                       IN  IF refresh_outcome(resp) = "ok"
                           THEN exec_refreshed(w2, name, cmd, profile.account, launch, fault)
                           ELSE IF refresh_outcome(resp) = "invalid_grant"
                           THEN exec_invalid_grant(w2, name, cmd, login, launch, fault)
                           ELSE exec_refresh_failed(w2)
                  ELSE exec_with_env(w1, cmd, "CLAUDE_CODE_OAUTH_TOKEN",
                                     profile.credentials.access_token, launch)
             ELSE exec_api_key(w1, cmd, profile.api_key, launch)

----------------------------------------------------------------------------
(* The environment: what the operator types, the clock, the token endpoint, *)
(* the login subprocess and the launch of the exec'd command                *)

CmdNames == {<<"a">>, <<"b">>, <<>>, <<"a", "/", "b">>}
Command == <<"mycommand", "--flag">>

LoginCreds == {Creds("at-login", "rt-login", BufferMs + MaxNow + d) : d \in {0, 1}}

Responses ==
    {TransportError,
     Http(400, TRUE, TRUE, None, None, None),
     Http(500, FALSE, FALSE, None, None, None),
     Http(200, FALSE, FALSE, None, None, None),
     Http(200, TRUE, TRUE, None, Some("rt-new"), None)}
    \cup {Http(200, FALSE, TRUE, Some("at-new"), None, None),
          Http(200, FALSE, TRUE, Some("at-new"), Some("rt-new"), Some(300))}

LoginOutcomes ==
    {SpawnFailed,
     LoginRan("nonzero", "nothing", BadShape),
     LoginRan("zero", "nothing", BadShape),
     LoginRan("zero", "api_key", BadShape),
     LoginRan("zero", "oauth_only", BadShape)}
    \cup {LoginRan("zero", "oauth", c) : c \in LoginCreds}

Launches == {"ok", "failed"}

InitCredsFiles ==
    {CredsAbsent} \cup {CredsObj(Some(c), Some("mcpOAuth")) : c \in LoginCreds}

InitClaudeJsons ==
    {ClaudeAbsent, ClaudeUndecodable, ClaudeNonObject,
     ClaudeObj(Some(LoginAccount), None, Some("theme")),
     ClaudeObj(None, Some(LoginKey), Some("theme"))}

NoCommand ==
    [cmd |-> "none", name |-> <<>>, now |-> 0, st |-> "ok", err |-> "none",
     tr |-> <<>>, refreshed |-> None]

(* the external tool's files that exist, each with the given mode *)
ExternalModes(c, j, mc, mj) ==
    [q \in {q \in ExternalPaths :
               \/ q = CredentialsPath /\ c.kind # "absent"
               \/ q = ClaudeJsonPath /\ j.kind # "absent"} |->
        IF q = CredentialsPath THEN mc ELSE mj]

NoProcs == <<>>

Init ==
    /\ profiles = <<>>
    /\ stateFile = StateAbsent
    /\ credsFile \in InitCredsFiles
    /\ claudeJson \in InitClaudeJsons
    /\ last = NoCommand
    /\ faulted = 0
    /\ modes = ExternalModes(credsFile, claudeJson, OwnerOnly, OwnerOnly)
    /\ procs = NoProcs

(* One logged-in session: where the faults and the store are explored from *)
InitSession ==
    /\ profiles = <<>>
    /\ stateFile = StateAbsent
    /\ credsFile = CredsObj(Some(Creds("at-login", "rt-login", BufferMs + MaxNow)),
                            Some("mcpOAuth"))
    /\ claudeJson = ClaudeObj(Some(LoginAccount), None, Some("theme"))
    /\ last = NoCommand
    /\ faulted = 0
    /\ modes = ExternalModes(credsFile, claudeJson, OwnerOnly, OwnerOnly)
    /\ procs = NoProcs

Current == [World(profiles, stateFile, credsFile, claudeJson) EXCEPT !.modes = modes]

(* A command is typed at the prompt, runs to its end as one process, and    *)
(* leaves the files as the run left them; `last` is the record of that run *)
Finish(cmd, name, now, fault, w) ==
    /\ last = NoCommand
    /\ faulted' = IF fault.kind # "none" /\ w.nw >= fault.at THEN faulted + 1 ELSE faulted
    /\ profiles' = w.profiles
    /\ stateFile' = w.stateFile
    /\ credsFile' = w.credsFile
    /\ claudeJson' = w.claudeJson
    /\ modes' = w.modes
    /\ procs' = procs
    /\ last' = [cmd |-> cmd, name |-> name, now |-> now,
                st |-> IF w.st = "run" THEN "ok" ELSE w.st,
                err |-> w.err, tr |-> w.tr, refreshed |-> w.refreshed]

(* the inputs a run consumes: the clock is read for an OAuth profile, the   *)
(* endpoint is asked when the token is expired, the login runs after the    *)
(* clear step                                                               *)
IsOAuth(name) ==
    load_profile_ok(Current, name) /\ loaded_profile(Current, name).kind = "oauth"
NeedsRefresh(name, now) ==
    IsOAuth(name) /\ is_expired(now, loaded_profile(Current, name).credentials)
Clock(name) == IF IsOAuth(name) THEN 0..MaxNow ELSE {0}
Endpoint(name, now) == IF NeedsRefresh(name, now) THEN Responses ELSE {TransportError}
LoginAfterRefresh(name, now, resp) ==
    IF NeedsRefresh(name, now) /\ refresh_outcome(resp) = "invalid_grant"
    THEN LoginOutcomes ELSE {SpawnFailed}
LoginAfterAdd(name) ==
    IF ~profile_exists(Current, name) /\ loaded_state(Current) # None
    THEN LoginOutcomes ELSE {SpawnFailed}

Add(F) ==
    \E name \in CmdNames : \E login \in LoginAfterAdd(name) : \E fault \in F :
        Finish("add", name, 0, fault, cmd_add(Current, name, login, fault))

Import(F) ==
    \E name \in CmdNames : \E fault \in F :
        Finish("import", name, 0, fault, cmd_import(Current, name, fault))

Use(F) ==
    \E name \in CmdNames : \E now \in Clock(name) : \E resp \in Endpoint(name, now) :
        \E login \in LoginAfterRefresh(name, now, resp) : \E fault \in F :
            Finish("use", name, now, fault, cmd_use(Current, name, now, resp, login, fault))

Remove(F) ==
    \E name \in CmdNames : \E fault \in F :
        Finish("remove", name, 0, fault, cmd_remove(Current, name, fault))

Exec(F) ==
    \E name \in CmdNames : \E now \in Clock(name) : \E resp \in Endpoint(name, now) :
        \E login \in LoginAfterRefresh(name, now, resp) :
            \E launch \in Launches : \E fault \in F :
                Finish("exec", name, now, fault,
                       cmd_exec(Current, name, Command, now, resp, login, launch, fault))

(* The finished process is gone; the next command starts from the files alone *)
Prompt ==
    /\ last # NoCommand
    /\ last' = NoCommand
    /\ UNCHANGED <<profiles, stateFile, credsFile, claudeJson, faulted, modes, procs>>

(* One invocation at a time, every file operation succeeding *)
Next ==
    \/ Prompt
    \/ Add({NoFault})
    \/ Import({NoFault})
    \/ Use({NoFault})
    \/ Remove({NoFault})
    \/ Exec({NoFault})

Spec == Init /\ [][Next]_vars

(* The same, where an open or a write can fail and the process can be killed *)
FaultsLeft == IF faulted < MaxFaults THEN Faults ELSE {NoFault}

NextFaults ==
    \/ Prompt
    \/ Add(FaultsLeft)
    \/ Import(FaultsLeft)
    \/ Use(FaultsLeft)
    \/ Remove(FaultsLeft)
    \/ Exec(FaultsLeft)

SpecFaults == InitSession /\ [][NextFaults]_vars

(* The same commands, where the external tool's files exist with the modes *)
(* the external tool or the operator gave them                              *)
FileModes == {OwnerOnly, GroupWorld}

InitModes ==
    /\ profiles = <<>>
    /\ stateFile = StateAbsent
    /\ credsFile = CredsObj(Some(Creds("at-login", "rt-login", BufferMs + MaxNow)),
                            Some("mcpOAuth"))
    /\ claudeJson = ClaudeObj(Some(LoginAccount), None, Some("theme"))
    /\ last = NoCommand
    /\ faulted = 0
    /\ \E mc \in FileModes : \E mj \in FileModes :
           modes = ExternalModes(credsFile, claudeJson, mc, mj)
    /\ procs = NoProcs

SpecModes == InitModes /\ [][Next]_vars

----------------------------------------------------------------------------
(* Invocations side by side.  Nothing locks the files, so the file           *)
(* operations of processes started at the same time interleave one by one.  *)
(* These are cmd_use on an OAuth profile whose token is not expired and     *)
(* cmd_remove, step by step; write_secure is two steps, the open that       *)
(* truncates and the write_all that follows it.                             *)

Invocations == {1, 2, 3}
RaceNames == {<<"a">>, <<"b">>}

SessionOf(name) ==
    IF name = <<"a">>
    THEN OAuthProfile(Creds("at-a", "rt-a", BufferMs + MaxNow + 1),
                      Account(Some("a@example.com")))
    ELSE OAuthProfile(Creds("at-b", "rt-b", BufferMs + MaxNow + 1),
                      Account(Some("b@example.com")))

Idle ==
    [cmd |-> "none", name |-> <<>>, pc |-> "idle", profile |-> UndecodableProfile,
     path |-> <<>>, doc |-> StateAbsent, torn |-> FALSE, overlapped |-> FALSE]

(* both profiles imported, profile a in use *)
InitRace ==
    /\ profiles = [q \in {profile_path(n) : n \in RaceNames} |->
                      SessionOf(SubSeq(q, 1, Len(q) - 1))]
    /\ stateFile = StateObj(Some(<<"a">>))
    /\ credsFile = CredsObj(Some(SessionOf(<<"a">>).credentials), Some("mcpOAuth"))
    /\ claudeJson = ClaudeObj(Some(SessionOf(<<"a">>).account), None, Some("theme"))
    /\ last = NoCommand
    /\ faulted = 0
    /\ modes = [q \in {StatePath, CredentialsPath, ClaudeJsonPath}
                        \cup {ProfileFile(n) : n \in RaceNames} |-> OwnerOnly]
    /\ procs = [p \in Invocations |-> Idle]

Running(q) == procs[q].pc \notin {"idle", "done", "failed"}

(* process p takes a step: its record becomes r, the files become w's *)
Step(p, r, w) ==
    /\ procs' = [procs EXCEPT ![p] =
                    [r EXCEPT !.overlapped =
                        @ \/ \E q \in Invocations \ {p} : Running(q)]]
    /\ profiles' = w.profiles
    /\ stateFile' = w.stateFile
    /\ credsFile' = w.credsFile
    /\ claudeJson' = w.claudeJson
    /\ modes' = w.modes
    /\ UNCHANGED <<last, faulted>>

(* fs::read returned a file that an open had truncated and not yet rewritten *)
ReadTorn(r, f) == [r EXCEPT !.torn = @ \/ f.kind = "undecodable"]

(* cmd_use: load_profile, then the match on its kind *)
StartUse(p) ==
    \E name \in RaceNames :
        /\ procs[p].pc = "idle"
        /\ LET w == load_profile(Current, name)
               r == [procs[p] EXCEPT !.cmd = "use", !.name = name]
           IN  IF w.st # "run"
               THEN Step(p, [r EXCEPT !.pc = "failed"], Current)
               ELSE LET profile == loaded_profile(Current, name)
                    IN  Step(p, [r EXCEPT !.profile = profile,
                                          !.pc = IF profile.kind = "api_key"
                                                 THEN "state_read"
                                                 ELSE IF is_expired(0, profile.credentials)
                                                 THEN "refresh"
                                                 ELSE "creds_read"],
                             Current)

(* write_credentials: read the document and insert claudeAiOauth *)
CredsRead(p) ==
    /\ procs[p].pc = "creds_read"
    /\ Step(p, [ReadTorn(procs[p], credsFile) EXCEPT
                   !.path = CredentialsPath,
                   !.doc = [CredsDoc(credsFile) EXCEPT
                               !.claudeAiOauth = Some(procs[p].profile.credentials)],
                   !.pc = "open"],
            Current)

(* write_oauth_account: read the document and insert oauthAccount *)
JsonRead(p) ==
    /\ procs[p].pc = "json_read"
    /\ LET f == claudeJson
           account == procs[p].profile.account
           r == ReadTorn(procs[p], f)
       IN  IF f.kind = "undecodable"
           THEN Step(p, [r EXCEPT !.pc = "failed"], Current)
           ELSE Step(p, [r EXCEPT
                           !.path = ClaudeJsonPath,
                           !.doc = IF f.kind = "absent"
                                   THEN ClaudeObj(Some(account), None, None)
                                   ELSE IF f.kind = "obj"
                                   THEN [f EXCEPT !.oauthAccount = Some(account)]
                                   ELSE f,
                           !.pc = "open"],
                     Current)

(* a remove that leaves active state alone *)
remove_clears_never(active, name) == FALSE

(* remove_profile: if state.active_profile.as_deref() == Some(name) *)
remove_clears(active, name) == active = Some(name)

(* load_state, then the State to save: cmd_use names the profile,          *)
(* remove_profile clears the name when it is the removed profile's         *)
StateRead(p) ==
    /\ procs[p].pc = "state_read"
    /\ LET r == ReadTorn(procs[p], stateFile)
           active == loaded_state(Current)
       IN  IF r.cmd = "use"
           THEN Step(p, [r EXCEPT !.path = StatePath,
                                  !.doc = StateObj(Some(r.name)),
                                  !.pc = "open"],
                     Current)
           ELSE IF remove_clears(active, r.name)
           THEN Step(p, [r EXCEPT !.path = StatePath, !.doc = StateObj(None),
                                  !.pc = "open"],
                     Current)
           ELSE Step(p, [r EXCEPT !.pc = "done"], Current)

(* write_secure: the open creates or truncates the file *)
Open(p) ==
    /\ procs[p].pc = "open"
    /\ Step(p, [procs[p] EXCEPT !.pc = "write"],
            SetFile(open_create(Current, procs[p].path), procs[p].path,
                    Truncated(procs[p].path)))

(* write_secure: write_all, then what follows the call in the command *)
Write(p) ==
    /\ procs[p].pc = "write"
    /\ Step(p, [procs[p] EXCEPT
                   !.pc = IF procs[p].path = CredentialsPath THEN "json_read"
                          ELSE IF procs[p].path = ClaudeJsonPath THEN "state_read"
                          ELSE "done"],
            SetFile(Current, procs[p].path, procs[p].doc))

(* remove_profile: validate the name, path.exists() *)
StartRemove(p) ==
    \E name \in RaceNames :
        /\ procs[p].pc = "idle"
        /\ LET r == [procs[p] EXCEPT !.cmd = "remove", !.name = name]
           IN  IF validate_profile_name(name) /\ profile_path(name) \in DOMAIN profiles
               THEN Step(p, [r EXCEPT !.pc = "remove_file"], Current)
               ELSE Step(p, [r EXCEPT !.pc = "failed"], Current)

(* remove_profile: fs::remove_file, an error when the file is gone by now *)
RemoveFile(p) ==
    /\ procs[p].pc = "remove_file"
    /\ IF profile_path(procs[p].name) \in DOMAIN profiles
       THEN Step(p, [procs[p] EXCEPT !.pc = "state_read"],
                 remove_file(Current, procs[p].name))
       ELSE Step(p, [procs[p] EXCEPT !.pc = "failed"], Current)

NextRace ==
    \E p \in Invocations :
        \/ StartUse(p)
        \/ CredsRead(p)
        \/ JsonRead(p)
        \/ StateRead(p)
        \/ Open(p)
        \/ Write(p)
        \/ StartRemove(p)
        \/ RemoveFile(p)

SpecRace == InitRace /\ [][NextRace]_vars

----------------------------------------------------------------------------
(* The refresh engine on its own: is_expired and refresh_token applied to   *)
(* every clock reading, expiry, credentials and response of the sets below, *)
(* next to the commands that call them                                      *)

Times == 0..MaxTime
Expiries == {0} \cup ((BufferMs - 1)..(BufferMs + MaxTime + 1))

InputCreds ==
    {Creds("at-old", "rt-old", BufferMs),
     [Creds("at-old", "rt-old", BufferMs) EXCEPT
         !.scopes = <<"user:profile">>,
         !.subscription_type = None,
         !.rate_limit_tier = Some("tier-1")]}

StatusCodes == {199, 200, 299, 300, 400, 500}

(* a body that is not JSON has no fields *)
AllResponses ==
    {TransportError}
    \cup {Http(status, marker, FALSE, None, None, None) :
             status \in StatusCodes, marker \in BOOLEAN}
    \cup {Http(r[1], r[2], TRUE, r[3], r[4], r[5]) :
             r \in StatusCodes \X BOOLEAN \X {None, Some("at-new")}
                     \X {None, Some("rt-new")} \X {None, Some(300)}}

(* the call and what it returned, as the record of the last command *)
Applied(cmd, now, creds, resp, w, result) ==
    /\ last = NoCommand
    /\ last' = [cmd |-> cmd, name |-> <<>>, now |-> now,
                st |-> "ok", err |-> "none", tr |-> w.tr, refreshed |-> w.refreshed,
                input |-> creds, resp |-> resp, result |-> result]
    /\ UNCHANGED <<profiles, stateFile, credsFile, claudeJson, faulted, modes, procs>>

IsExpired ==
    \E now \in Times : \E exp \in Expiries :
        LET creds == Creds("at-old", "rt-old", exp)
        IN  Applied("is_expired", now, creds, TransportError, Current,
                    is_expired(now, creds))

RefreshToken ==
    \E creds \in InputCreds : \E resp \in AllResponses :
        Applied("refresh_token", 0, creds, resp,
                refresh_token(Current, 0, creds, resp), refresh_outcome(resp))

NextOAuth ==
    \/ Prompt
    \/ IsExpired
    \/ RefreshToken
    \/ Import({NoFault})
    \/ Use({NoFault})
    \/ Exec({NoFault})

SpecOAuth == InitSession /\ [][NextOAuth]_vars

----------------------------------------------------------------------------
(* The store on its own: save_profile, load_profile and remove_profile      *)
(* called with every string up to MaxNameLen characters                     *)

StoredProfiles ==
    {ApiKeyProfile(LoginKey),
     OAuthProfile(Creds("at-login", "rt-login", BufferMs + MaxNow), LoginAccount)}

SaveProfile ==
    \E name \in NameStrings : \E profile \in StoredProfiles :
        /\ Cardinality(DOMAIN profiles) < MaxStored
        /\ Finish("save_profile", name, 0, NoFault,
                  save_profile(Current, name, profile, NoFault))

LoadProfile ==
    \E name \in NameStrings :
        Finish("load_profile", name, 0, NoFault, load_profile(Current, name))

RemoveProfile ==
    \E name \in NameStrings :
        Finish("remove_profile", name, 0, NoFault,
               remove_profile(Current, name, NoFault))

NextStore ==
    \/ Prompt
    \/ SaveProfile
    \/ LoadProfile
    \/ RemoveProfile

SpecStore == InitSession /\ [][NextStore]_vars

----------------------------------------------------------------------------
(* Vocabulary of the properties *)

Files == <<profiles, stateFile, credsFile, claudeJson>>

(* A name the specification calls invalid: empty, `.`, `..`, or holding a   *)
(* path separator anywhere                                                  *)
InvalidName(name) ==
    \/ name = <<>>
    \/ name = <<".">>
    \/ name = <<".", ".">>
    \/ \E i \in 1..Len(name) : name[i] = "/"

Refreshed(tr, outcome) ==
    \E i \in 1..Len(tr) : tr[i].op = "refresh" /\ tr[i].arg = <<outcome>>
Spawned(tr) == \E i \in 1..Len(tr) : tr[i].op = "spawn"
LoginExited(tr, exit) ==
    \E i \in 1..Len(tr) : tr[i].op = "spawn" /\ tr[i].arg = <<exit>>
Executed(tr) == \E i \in 1..Len(tr) : tr[i].op = "exec"
Touches(e, paths) == e.op \in {"read", "write", "stat", "remove", "open_failed"} /\ e.path \in paths
Writes(e, paths) == e.op \in {"write", "remove"} /\ e.path \in paths
WroteTo(tr, paths) == \E i \in 1..Len(tr) : Writes(tr[i], paths)
Active(f) == IF f.kind = "obj" THEN f.active_profile ELSE None

----------------------------------------------------------------------------
(* C1: for every profile name that is empty, `.`, `..` or holds a path      *)
(* separator anywhere (a trailing one included), save_profile, load_profile *)
(* and remove_profile fail with a validation error and do no filesystem     *)
(* read or write.                                                           *)
C1_InvalidNamesNeverReachTheStore ==
    (last.cmd \in {"save_profile", "load_profile", "remove_profile"}
        /\ InvalidName(last.name))
    => (last.st = "err" /\ last.err = "invalid_name" /\ last.tr = <<>>)

(* C2: add, import, use, exec and remove given an invalid name fail with a  *)
(* validation error before any I/O: nothing is read or written, the         *)
(* external tool's auth is not cleared and no login is spawned.             *)
C2_InvalidNameFailsBeforeAnyIO ==
    (last.cmd \in {"add", "import", "use", "exec", "remove"} /\ InvalidName(last.name))
    => (last.st = "err" /\ last.err = "invalid_name" /\ last.tr = <<>>)

(* C3: when the refresh that use or exec attempts ends in a transient       *)
(* failure, the command aborts with that error, every persisted file is as  *)
(* it was, and no subprocess is spawned.                                    *)
C3_TransientFailureLeavesFilesAlone ==
    [][(last'.cmd \in {"use", "exec"} /\ Refreshed(last'.tr, "other"))
        => /\ last'.st = "err" /\ last'.err = "refresh"
           /\ Files' = Files
           /\ ~Spawned(last'.tr) /\ ~Executed(last'.tr)
           /\ ~WroteTo(last'.tr, ExternalPaths \cup {StatePath, ProfileFile(last'.name)})]_vars

C3_Witness ==
    /\ last.cmd \in {"use", "exec"}
    /\ Refreshed(last.tr, "other")
    /\ profile_path(last.name) \in DOMAIN profiles
    /\ Active(stateFile) # None

(* C4: when the refresh yields InvalidGrant and the login subprocess exits  *)
(* non-zero, the named profile's file still holds exactly the stale         *)
(* credentials and active state is unchanged.                               *)
C4_FailedLoginKeepsStaleProfile ==
    [][(last'.cmd \in {"use", "exec"} /\ Refreshed(last'.tr, "invalid_grant")
            /\ LoginExited(last'.tr, "nonzero"))
        => /\ last'.st = "err"
           /\ profile_path(last'.name) \in DOMAIN profiles'
           /\ profiles'[profile_path(last'.name)] = profiles[profile_path(last'.name)]
           /\ stateFile' = stateFile]_vars

C4_Witness ==
    /\ last.cmd = "use"
    /\ Refreshed(last.tr, "invalid_grant")
    /\ LoginExited(last.tr, "nonzero")
    /\ profiles[profile_path(last.name)].kind = "oauth"
    /\ Active(stateFile) # None

(* C5, as stated: `use <name>` on an expired OAuth profile, when the refresh *)
(* succeeds, ends with the profile file holding the new token and expiry,   *)
(* the external credentials file's OAuth section equal to the refreshed     *)
(* credentials, and active state equal to <name>.                           *)
HoldCredentials(store, external, name, credentials) ==
    /\ profile_path(name) \in DOMAIN store
    /\ store[profile_path(name)].kind = "oauth"
    /\ store[profile_path(name)].credentials = credentials
    /\ external.kind = "obj"
    /\ external.claudeAiOauth = Some(credentials)

C5_AsStated ==
    (last.cmd = "use" /\ Refreshed(last.tr, "ok"))
    => /\ HoldCredentials(profiles, credsFile, last.name, Unwrap(last.refreshed))
       /\ Active(stateFile) = Some(last.name)

(* C5, amended: with every file write succeeding, `use <name>` on an        *)
(* expired OAuth profile whose refresh succeeds ends as stated when the     *)
(* external global config is absent or parses as JSON; when that file       *)
(* exists and is not JSON the command fails at synchronization, with the    *)
(* profile file and the external credentials file holding the refreshed     *)
(* credentials and active state unchanged.                                  *)
C5_RefreshedUseSynchronizes ==
    [][(last'.cmd = "use" /\ Refreshed(last'.tr, "ok"))
        => /\ HoldCredentials(profiles', credsFile', last'.name, Unwrap(last'.refreshed))
           /\ IF claudeJson.kind = "undecodable"
              THEN last'.st = "err" /\ stateFile' = stateFile
              ELSE last'.st = "ok" /\ Active(stateFile') = Some(last'.name)]_vars

C5_Witness ==
    /\ last.cmd = "use"
    /\ Refreshed(last.tr, "ok")
    /\ last.st = "ok"
    /\ Active(stateFile) = Some(last.name)
    /\ profiles[profile_path(last.name)].credentials.access_token = "at-new"

(* C6: `remove <name>` on an existing profile deletes its file; afterwards  *)
(* active state is empty if it named <name> and is otherwise exactly what   *)
(* it was.  `remove` on a name with no profile file fails and changes       *)
(* nothing.                                                                 *)
C6_RemoveDeletesAndClearsOnlyItsOwnActiveState ==
    [][last'.cmd = "remove"
        => IF profile_path(last'.name) \in DOMAIN profiles
           THEN /\ last'.st = "ok"
                /\ DOMAIN profiles' = (DOMAIN profiles) \ {profile_path(last'.name)}
                /\ \A q \in DOMAIN profiles' : profiles'[q] = profiles[q]
                /\ IF Active(stateFile) = Some(last'.name)
                   THEN stateFile' = StateObj(None)
                   ELSE stateFile' = stateFile
                /\ credsFile' = credsFile /\ claudeJson' = claudeJson
           ELSE last'.st = "err" /\ Files' = Files /\ ~WroteTo(last'.tr, ExternalPaths \cup {StatePath})]_vars

C6_Witness ==
    /\ last.cmd = "remove"
    /\ last.st = "ok"
    /\ profile_path(last.name) \notin DOMAIN profiles
    /\ DOMAIN profiles # {}
    /\ Active(stateFile) # None

(* C7: `use <name>` on an API-key profile sets active state to <name>,      *)
(* writes neither the external credentials file nor the global config, and  *)
(* leaves the profile file as it was.                                       *)
C7_ApiKeyUseTouchesOnlyActiveState ==
    [][(last'.cmd = "use" /\ load_profile_ok(Current, last'.name)
            /\ loaded_profile(Current, last'.name).kind = "api_key")
        => /\ last'.st = "ok"
           /\ Active(stateFile') = Some(last'.name)
           /\ credsFile' = credsFile /\ claudeJson' = claudeJson
           /\ profiles' = profiles
           /\ ~WroteTo(last'.tr, ExternalPaths \cup {ProfileFile(last'.name)})]_vars

C7_Witness ==
    /\ last.cmd = "use"
    /\ last.st = "ok"
    /\ profile_path(last.name) \in DOMAIN profiles
    /\ profiles[profile_path(last.name)].kind = "api_key"
    /\ credsFile.kind = "obj" /\ IsSome(credsFile.claudeAiOauth)

(* C8, as stated: for every exec invocation, whatever the profile type and   *)
(* the refresh outcome, the credentials are only injected into the child's  *)
(* environment and the tool never writes to the external tool's credentials *)
(* file or global config.                                                   *)
InjectedOnly(tr) ==
    \A i \in 1..Len(tr) :
        tr[i].op = "exec" =>
            /\ tr[i].path = Command
            /\ Len(tr[i].arg) = 2
            /\ tr[i].arg[1] \in {"CLAUDE_CODE_OAUTH_TOKEN", "ANTHROPIC_API_KEY"}

C8_AsStated ==
    last.cmd = "exec" => InjectedOnly(last.tr) /\ ~WroteTo(last.tr, ExternalPaths)

(* C8, amended: exec hands the credentials to the child's environment only; *)
(* it writes to the external tool's files in one case, the clear step of    *)
(* the reauthentication that follows InvalidGrant, before the login is      *)
(* spawned; with any other refresh outcome, and for a fresh or API-key      *)
(* profile, both files are left exactly as they were.                       *)
C8_ExecWritesExternalFilesOnlyToClearThem ==
    [][last'.cmd = "exec"
        => /\ InjectedOnly(last'.tr)
           /\ \A i \in 1..Len(last'.tr) :
                 Writes(last'.tr[i], ExternalPaths)
                 => /\ Refreshed(SubSeq(last'.tr, 1, i - 1), "invalid_grant")
                    /\ ~Spawned(SubSeq(last'.tr, 1, i - 1))
                    /\ Spawned(last'.tr) \/ last'.st = "err"
           /\ ~Refreshed(last'.tr, "invalid_grant")
                 => credsFile' = credsFile /\ claudeJson' = claudeJson]_vars

C8_Witness ==
    /\ last.cmd = "exec"
    /\ last.st = "exec"
    /\ Refreshed(last.tr, "invalid_grant")
    /\ WroteTo(last.tr, {CredentialsPath})
    /\ WroteTo(last.tr, {ClaudeJsonPath})

(* C9, as stated, read in the claim's favour (the profile file is not       *)
(* written; the external config files and active state are neither read    *)
(* nor written): exec on an API-key profile launches the command with       *)
(* exactly one injected variable, ANTHROPIC_API_KEY set to the key, and an  *)
(* OAuth profile is symmetric with CLAUDE_CODE_OAUTH_TOKEN set to the       *)
(* access token.                                                            *)
OnlyLaunches(tr, name, var, value) ==
    /\ \A i \in 1..Len(tr) :
          /\ ~Touches(tr[i], ExternalPaths \cup {StatePath})
          /\ ~Writes(tr[i], {ProfileFile(name)})
          /\ tr[i].op # "spawn"
    /\ \E i \in 1..Len(tr) :
          /\ tr[i] = Ev("exec", Command, <<var, value>>)
          /\ \A j \in 1..Len(tr) : tr[j].op = "exec" => j = i

C9_AsStated ==
    [][(last'.cmd = "exec" /\ load_profile_ok(Current, last'.name)
            /\ last'.st \in {"exec", "err"} /\ Executed(last'.tr))
        => /\ Files' = Files
           /\ LET profile == loaded_profile(Current, last'.name)
              IN  IF profile.kind = "api_key"
                  THEN OnlyLaunches(last'.tr, last'.name, "ANTHROPIC_API_KEY",
                                    profile.api_key)
                  ELSE OnlyLaunches(last'.tr, last'.name, "CLAUDE_CODE_OAUTH_TOKEN",
                                    profile.credentials.access_token)]_vars

(* C9, amended: exec on an API-key profile reads the profile file and then  *)
(* launches the command with exactly one injected variable,                 *)
(* ANTHROPIC_API_KEY set to the key; it writes no file and neither reads    *)
(* nor writes the external config files or active state.  An OAuth profile  *)
(* whose token is not expired is symmetric, with CLAUDE_CODE_OAUTH_TOKEN    *)
(* set to the stored access token.                                          *)
C9_ExecOfUsableProfileOnlyLaunches ==
    [][(last'.cmd = "exec" /\ load_profile_ok(Current, last'.name)
            /\ (loaded_profile(Current, last'.name).kind = "oauth"
                   => ~(last'.now + BufferMs
                           >= loaded_profile(Current, last'.name).credentials.expires_at)))
        => /\ Files' = Files
           /\ LET profile == loaded_profile(Current, last'.name)
                  var == IF profile.kind = "api_key" THEN "ANTHROPIC_API_KEY"
                         ELSE "CLAUDE_CODE_OAUTH_TOKEN"
                  value == IF profile.kind = "api_key" THEN profile.api_key
                           ELSE profile.credentials.access_token
              IN  last'.tr = <<Ev("read", ProfileFile(last'.name), <<>>),
                               Ev("exec", Command, <<var, value>>)>>]_vars

C9_Witness ==
    /\ last.cmd = "exec"
    /\ last.st = "exec"
    /\ profiles[profile_path(last.name)].kind = "api_key"
    /\ Len(last.tr) = 2
    /\ last.tr[2] = Ev("exec", Command, <<"ANTHROPIC_API_KEY", LoginKey>>)

(* C10: `add <name>` fails whenever no active profile is recorded or a      *)
(* profile file for <name> already exists, whatever that file contains; in  *)
(* both cases before the clear step, so the existing profile file, the      *)
(* external tool's auth and active state are unchanged and no login is      *)
(* spawned.                                                                 *)
C10_AddRefusesExistingFileOrNoActive ==
    [][(last'.cmd = "add"
            /\ (Active(stateFile) = None \/ profile_path(last'.name) \in DOMAIN profiles))
        => /\ last'.st = "err"
           /\ Files' = Files
           /\ ~Spawned(last'.tr)
           /\ ~WroteTo(last'.tr, ExternalPaths)]_vars

(* C11: whenever the reauthentication that use or exec triggers gets as far  *)
(* as reading the credentials back after a login that exited zero, those     *)
(* credentials are the named profile's file and active state is that name;   *)
(* and every successful add, import or use of a name ends with active state  *)
(* equal to that name.                                                       *)
ReadBack(l) ==
    /\ Refreshed(l.tr, "invalid_grant")
    /\ LoginExited(l.tr, "zero")
    /\ l.err \notin {"decode", "no_credentials"}

C11_ReauthenticationPersistsAndActivates ==
    /\ (last.cmd \in {"use", "exec"} /\ ReadBack(last))
          => /\ profile_path(last.name) \in DOMAIN profiles
             /\ profiles[profile_path(last.name)] = captured_profile(Current)
             /\ Active(stateFile) = Some(last.name)
    /\ (last.cmd \in {"add", "import", "use"} /\ last.st = "ok")
          => Active(stateFile) = Some(last.name)

(* C12: every write the tool makes to the external tool's files is a         *)
(* targeted merge.  Synchronization by use changes only the claudeAiOauth    *)
(* key of the credentials file and only the oauthAccount key of the global   *)
(* config; the clear step removes only claudeAiOauth, oauthAccount and       *)
(* primaryApiKey; every other key present before a write has the same value  *)
(* after it.                                                                 *)
SameBut(f, g, keys) ==
    /\ DOMAIN f = DOMAIN g
    /\ \A k \in (DOMAIN f) \ keys : f[k] = g[k]

(* the login ran to no effect: what is on disk is what the clear step left *)
OnlyCleared(tr) ==
    Spawned(tr) /\ ~LoginExited(tr, "zero")

C12_ExternalWritesAreTargetedMerges ==
    [][/\ credsFile.kind = "obj"
            => credsFile'.kind = "obj" /\ credsFile'.other = credsFile.other
       /\ claudeJson.kind = "obj"
            => claudeJson'.kind = "obj" /\ claudeJson'.other = claudeJson.other
       /\ (claudeJson.kind \in {"nonobject", "undecodable"} /\ ~LoginExited(last'.tr, "zero"))
            => claudeJson' = claudeJson
       /\ (last'.cmd = "use" /\ ~Spawned(last'.tr))
            => /\ credsFile.kind = "obj" => SameBut(credsFile', credsFile, {"claudeAiOauth"})
               /\ claudeJson.kind = "obj" => SameBut(claudeJson', claudeJson, {"oauthAccount"})
       /\ OnlyCleared(last'.tr)
            => /\ credsFile.kind = "obj"
                    => credsFile' = [credsFile EXCEPT !.claudeAiOauth = None]
               /\ claudeJson.kind = "obj"
                    => claudeJson' = [claudeJson EXCEPT !.oauthAccount = None,
                                                        !.primaryApiKey = None]]_vars

C12_Witness ==
    /\ last.cmd = "use"
    /\ last.st = "ok"
    /\ ~Spawned(last.tr)
    /\ WroteTo(last.tr, {CredentialsPath})
    /\ WroteTo(last.tr, {ClaudeJsonPath})
    /\ credsFile.other = Some("mcpOAuth")
    /\ claudeJson.other = Some("theme")
    /\ Unwrap(credsFile.claudeAiOauth).access_token = "at-new"

(* C13: after any write made through write_secure (a profile file, the       *)
(* state file, the external credentials file, the external global config)   *)
(* the written file is readable and writable by its owner only, also when   *)
(* it existed with broader permissions before the write.                     *)
C13_WrittenFilesAreOwnerOnly ==
    \A i \in 1..Len(last.tr) :
        (last.tr[i].op = "write" /\ last.tr[i].path \in DOMAIN modes)
            => modes[last.tr[i].path] = OwnerOnly

(* C14: no reader observes a partially written file.  A read of a profile,   *)
(* state or external config file that interleaves with a write_secure of    *)
(* the same path returns the complete old content or the complete new       *)
(* content, never an empty or truncated file.                               *)
C14_NoTornRead ==
    \A p \in DOMAIN procs : ~procs[p].torn

(* C20: without locking, invocations running at the same time can corrupt   *)
(* the state.  Interleaved `use` runs on different OAuth profiles can end   *)
(* with the credentials file holding one profile's tokens and the global    *)
(* config the other's account, or with active state naming a profile other  *)
(* than the one whose tokens are in the credentials file; a `remove`        *)
(* interleaved with a `use` of the same name can leave active state naming  *)
(* a deleted profile.  Invocations that run one after the other reach none  *)
(* of these states.                                                         *)
Quiescent == \A p \in DOMAIN procs : ~Running(p)

TokensOf(name) ==
    credsFile.kind = "obj"
        /\ credsFile.claudeAiOauth = Some(SessionOf(name).credentials)
AccountOf(name) ==
    claudeJson.kind = "obj"
        /\ claudeJson.oauthAccount = Some(SessionOf(name).account)

MixedSession ==
    \E x \in RaceNames : \E y \in RaceNames \ {x} : TokensOf(x) /\ AccountOf(y)
ActiveElsewhere ==
    \E x \in RaceNames : \E y \in RaceNames \ {x} :
        TokensOf(x) /\ Active(stateFile) = Some(y)
ActiveDeleted ==
    \E x \in RaceNames :
        Active(stateFile) = Some(x) /\ profile_path(x) \notin DOMAIN profiles

C20_OnlyInterleavingCorrupts ==
    (Quiescent /\ (MixedSession \/ ActiveElsewhere \/ ActiveDeleted))
        => \E p \in DOMAIN procs : procs[p].overlapped

C20_Witness ==
    /\ Quiescent
    /\ MixedSession
    /\ ActiveElsewhere
    /\ ActiveDeleted
    /\ \A p \in DOMAIN procs : procs[p].pc = "done"

(* C15: for every refresh response with a non-2xx status whose body holds   *)
(* the marker invalid_grant, refresh_token returns InvalidGrant and never   *)
(* the other error; every non-2xx response without the marker, and every    *)
(* transport or parse error, returns the other error, never InvalidGrant.   *)
Non2xx(resp) ==
    resp.kind = "http" /\ (resp.status_code < 200 \/ resp.status_code > 299)
ParseError(resp) ==
    resp.kind = "http" /\ ~Non2xx(resp) /\ (~resp.json \/ resp.access_token = None)

C15_InvalidGrantIsClassifiedByTheMarker ==
    last.cmd = "refresh_token"
    => /\ (Non2xx(last.resp) /\ last.resp.invalid_grant)
             => /\ last.result = "invalid_grant"
                /\ Refreshed(last.tr, "invalid_grant") /\ ~Refreshed(last.tr, "other")
                /\ last.refreshed = None
       /\ (\/ Non2xx(last.resp) /\ ~last.resp.invalid_grant
           \/ last.resp.kind = "transport_error"
           \/ ParseError(last.resp))
             => /\ last.result = "other"
                /\ Refreshed(last.tr, "other") /\ ~Refreshed(last.tr, "invalid_grant")
                /\ last.refreshed = None

C15_Witness ==
    /\ last.cmd = "refresh_token"
    /\ last.resp.kind = "http"
    /\ last.resp.status_code = 500
    /\ last.resp.invalid_grant
    /\ last.result = "invalid_grant"

(* C16: on a successful refresh the result's refresh token is the           *)
(* response's refresh_token when it has one and otherwise the input's,      *)
(* unchanged; the result's scopes, subscription tier and rate-limit tier    *)
(* are the input's whatever the response holds.                             *)
C16_RefreshCarriesOverWhatTheResponseOmits ==
    (last.cmd = "refresh_token" /\ last.result = "ok")
    => /\ IsSome(last.refreshed)
       /\ LET result == Unwrap(last.refreshed)
          IN  /\ IsSome(last.resp.refresh_token)
                    => result.refresh_token = Unwrap(last.resp.refresh_token)
              /\ ~IsSome(last.resp.refresh_token)
                    => result.refresh_token = last.input.refresh_token
              /\ result.scopes = last.input.scopes
              /\ result.subscription_type = last.input.subscription_type
              /\ result.rate_limit_tier = last.input.rate_limit_tier

C16_Witness ==
    /\ last.cmd = "refresh_token"
    /\ last.result = "ok"
    /\ last.resp.refresh_token = None
    /\ last.resp.invalid_grant
    /\ Unwrap(last.refreshed).refresh_token = "rt-old"
    /\ Unwrap(last.refreshed).scopes = <<"user:profile">>
    /\ Unwrap(last.refreshed).rate_limit_tier = Some("tier-1")

(* C17: for every stored expiry and every current time, is_expired is true  *)
(* exactly when now + 300000 ms >= expiresAt, so also when the two are      *)
(* equal; use and exec attempt a refresh of an OAuth profile exactly when   *)
(* it is true.                                                              *)
C17_ExpiredFromFiveMinutesBefore ==
    /\ [](last.cmd = "is_expired"
            => (last.result <=> (last.now + 300000 >= last.input.expires_at)))
    /\ [][(last'.cmd \in {"use", "exec"} /\ load_profile_ok(Current, last'.name)
               /\ loaded_profile(Current, last'.name).kind = "oauth")
           => ((\E i \in 1..Len(last'.tr) : last'.tr[i].op = "refresh")
                 <=> (last'.now + 300000
                         >= loaded_profile(Current, last'.name).credentials.expires_at))]_vars

C17_Witness ==
    /\ last.cmd = "is_expired"
    /\ last.now > 0
    /\ last.now + 300000 = last.input.expires_at
    /\ last.result

(* C18: `import <name>` captures the session in the external tool's files   *)
(* without modifying them: after any import, successful or failed, the      *)
(* external credentials file and global config are what they were; and      *)
(* import fails, leaving the store and active state unchanged, when a       *)
(* profile file for <name> already exists or when neither an OAuth bundle   *)
(* nor an API key is present.                                               *)
NoSession ==
    /\ credsFile.kind # "obj" \/ credsFile.claudeAiOauth = None
    /\ claudeJson.kind # "obj" \/ claudeJson.primaryApiKey = None

C18_ImportLeavesExternalFilesAndRefusesExisting ==
    [][last'.cmd = "import"
        => /\ credsFile' = credsFile /\ claudeJson' = claudeJson
           /\ ~WroteTo(last'.tr, ExternalPaths)
           /\ (profile_path(last'.name) \in DOMAIN profiles \/ NoSession)
                 => /\ last'.st = "err"
                    /\ profiles' = profiles
                    /\ stateFile' = stateFile]_vars

(* C19: the multi-step mutations are not transactional.  When `add` or a     *)
(* reauthentication stops after the clear step and before the profile       *)
(* save (the login cannot be started, or is interrupted and exits           *)
(* non-zero), the invocation ends with the external tool's OAuth            *)
(* credentials, account and API key cleared and no profile saved, and no    *)
(* later step of the invocation writes anything.                            *)
NothingAfterLogin(tr) ==
    \A i \in 1..Len(tr) : \A j \in (i + 1)..Len(tr) :
        tr[i].op = "spawn" => tr[j].op \notin {"write", "remove", "exec"}

C19_StoppedAfterClearLeavesAuthCleared ==
    [][(last'.cmd \in {"add", "use", "exec"} /\ OnlyCleared(last'.tr))
        => /\ last'.st = "err"
           /\ credsFile'.kind = "obj" => credsFile'.claudeAiOauth = None
           /\ claudeJson'.kind = "obj"
                 => claudeJson'.oauthAccount = None /\ claudeJson'.primaryApiKey = None
           /\ profiles' = profiles
           /\ stateFile' = stateFile
           /\ ~WroteTo(last'.tr, {StatePath, ProfileFile(last'.name)})
           /\ NothingAfterLogin(last'.tr)]_vars

C19_Witness ==
    /\ last.cmd = "add"
    /\ LoginExited(last.tr, "nonzero")
    /\ WroteTo(last.tr, {CredentialsPath})
    /\ WroteTo(last.tr, {ClaudeJsonPath})
    /\ credsFile.kind = "obj" /\ credsFile.claudeAiOauth = None
    /\ claudeJson.kind = "obj"
    /\ claudeJson.oauthAccount = None /\ claudeJson.primaryApiKey = None
    /\ profile_path(last.name) \notin DOMAIN profiles
    /\ \E q \in DOMAIN profiles : profiles[q].kind = "api_key"

(* C21: when the reauthentication that use or exec triggers reads back a     *)
(* static API key and no OAuth bundle after a login that exited zero, the   *)
(* outcome is accepted: the API-key profile is persisted and handed on as   *)
(* the command's result (`use` succeeds; `exec` launches the command with   *)
(* ANTHROPIC_API_KEY set to the key) and the command does not end in an     *)
(* error of its own.                                                        *)
ReadBackApiKeyOnly ==
    /\ credsFile.kind # "obj" \/ credsFile.claudeAiOauth = None
    /\ claudeJson.kind = "obj" /\ IsSome(claudeJson.primaryApiKey)

C21_ReauthenticationAcceptsAnApiKey ==
    (last.cmd \in {"use", "exec"} /\ ReadBack(last) /\ ReadBackApiKeyOnly)
    => /\ profile_path(last.name) \in DOMAIN profiles
       /\ profiles[profile_path(last.name)]
             = ApiKeyProfile(Unwrap(claudeJson.primaryApiKey))
       /\ last.cmd = "use" => last.st = "ok"
       /\ last.cmd = "exec"
             => /\ last.err \in {"none", "exec"}
                /\ \E i \in 1..Len(last.tr) :
                      last.tr[i] = Ev("exec", Command,
                                      <<"ANTHROPIC_API_KEY",
                                        Unwrap(claudeJson.primaryApiKey)>>)

(* C22: `use <name>` on an OAuth profile, at synchronization time, aborts   *)
(* with an error when the external tool's global config exists and is not   *)
(* valid JSON, leaving that file and active state as they were; a missing   *)
(* global config is treated as an empty object: the file is created holding *)
(* only the profile's account and the command succeeds with <name> active.  *)
SyncReached(tr) ==
    /\ ~Spawned(tr)
    /\ \E i \in 1..Len(tr) : tr[i] = Ev("stat", ClaudeJsonPath, <<>>)

CreatedGlobalConfig(tr) ==
    \E i \in 1..(Len(tr) - 1) :
        /\ tr[i] = Ev("stat", ClaudeJsonPath, <<>>)
        /\ tr[i + 1] = Ev("write", ClaudeJsonPath, <<>>)

(* C22 as stated: a missing global config aborts the command as a malformed *)
(* one does                                                                 *)
C22_AsStated ==
    [][(last'.cmd = "use" /\ IsOAuth(last'.name) /\ SyncReached(last'.tr)
            /\ claudeJson.kind \in {"absent", "undecodable"})
        => last'.st = "err"]_vars

C22_UseAbortsOnMalformedGlobalConfig ==
    [][(last'.cmd = "use" /\ IsOAuth(last'.name) /\ SyncReached(last'.tr))
        => /\ claudeJson.kind = "undecodable"
                => /\ last'.st = "err" /\ last'.err = "json"
                   /\ claudeJson' = claudeJson
                   /\ stateFile' = stateFile
           /\ claudeJson.kind = "absent"
                => /\ last'.st = "ok"
                   /\ claudeJson' = ClaudeObj(
                          Some(profiles'[profile_path(last'.name)].account), None, None)
                   /\ Active(stateFile') = Some(last'.name)]_vars

C22_Witness ==
    /\ last.cmd = "use" /\ last.st = "ok"
    /\ ~Spawned(last.tr) /\ CreatedGlobalConfig(last.tr)
    /\ profiles[profile_path(last.name)].kind = "oauth"
    /\ claudeJson = ClaudeObj(Some(profiles[profile_path(last.name)].account), None, None)
    /\ Active(stateFile) = Some(last.name)

(* C23: with one invocation at a time, no crash and no failed file write,   *)
(* after any sequence of add, import, use, exec and remove commands the     *)
(* active state is empty or names a profile whose file is in the store; and *)
(* an `add` that reaches the clear of the external tool's auth starts from  *)
(* a store holding at least one profile.                                    *)
ActiveIsStored ==
    Active(stateFile) = None
        \/ profile_path(Unwrap(Active(stateFile))) \in DOMAIN profiles

ReachedExternal(tr) == \E i \in 1..Len(tr) : Touches(tr[i], ExternalPaths)

Downstream(e) == Writes(e, ExternalPaths) \/ e.op = "exec"

SavedRefreshed ==
    /\ profile_path(last.name) \in DOMAIN profiles
    /\ profiles[profile_path(last.name)].kind = "oauth"
    /\ profiles[profile_path(last.name)].credentials = Unwrap(last.refreshed)

C24_RefreshedTokenIsSavedBeforeUse ==
    (last.cmd \in {"use", "exec"} /\ Refreshed(last.tr, "ok"))
    => \A j \in 1..Len(last.tr) :
          Downstream(last.tr[j])
          => /\ \E k \in 1..(j - 1) :
                    last.tr[k] = Ev("write", ProfileFile(last.name), <<>>)
             /\ SavedRefreshed

C24_Witness ==
    /\ last.cmd = "exec" /\ Refreshed(last.tr, "ok")
    /\ Unwrap(last.refreshed).refresh_token = "rt-new"
    /\ last.st = "err" /\ last.err = "io"
    /\ last.tr[Len(last.tr)].path = ProfileFile(last.name)
    /\ ~SavedRefreshed
    /\ \A j \in 1..Len(last.tr) : ~Downstream(last.tr[j])

(* C25: in every `use` run on an OAuth profile the active-state file is     *)
(* written last, after the external credentials file and the external       *)
(* global config have been written, and active state becomes <name> with    *)
(* both holding that profile's values; a `use` that ends in an error leaves *)
(* active state as it was; `exec` never changes the active-state file.      *)
StateWrittenLast(tr) ==
    \A i \in 1..Len(tr) :
        Writes(tr[i], {StatePath})
        => /\ i = Len(tr)
           /\ \E j \in 1..(i - 1) : tr[j] = Ev("write", CredentialsPath, <<>>)
           /\ \E j \in 1..(i - 1) : tr[j] = Ev("write", ClaudeJsonPath, <<>>)

HoldsValuesOf(profile, external, config) ==
    /\ external.kind = "obj"
    /\ external.claudeAiOauth = Some(profile.credentials)
    /\ config.kind = "obj"
    /\ config.oauthAccount = Some(profile.account)

C25_ActiveStateIsWrittenLast ==
    [][/\ (last'.cmd = "use" /\ IsOAuth(last'.name))
            => /\ StateWrittenLast(last'.tr)
               /\ last'.st = "ok"
                    => /\ Active(stateFile') = Some(last'.name)
                       /\ HoldsValuesOf(profiles'[profile_path(last'.name)],
                                         credsFile', claudeJson')
       /\ (last'.cmd = "use" /\ last'.st = "err")
            => Active(stateFile') = Active(stateFile)
       /\ last'.cmd = "exec" => stateFile' = stateFile]_vars

====
